---- MODULE Spec2Model ----
(***************************************************************************)
(* A model of jsonl-reader: the background sparse line index               *)
(* (JsonlIndexer), the paginated reader built on it (JsonlReader) and the  *)
(* streaming search (SearchService), as driven by JsonlEditorProvider.     *)
(*                                                                         *)
(* A file is a sequence of bytes.  JavaScript runs every handler to its    *)
(* next await without interleaving, so one action of the model is one      *)
(* such run: from the delivery of a message or the completion of an I/O    *)
(* request up to the next await.                                           *)
(***************************************************************************)
EXTENDS Integers, Sequences, FiniteSets, TLC

\* ------------------------------------------------------------------ bounds
MaxFileLen == 4        \* files of 0..MaxFileLen bytes
MaxPageSize == 2       \* the reader's pageSize is drawn from 1..MaxPageSize
MaxTokens == 3         \* text files are made of 0..MaxTokens characters
\* Iterations of the reader's while loop that are followed.  Every two iterations
\* either complete a line or drive the read position below -1, so the loop ends
\* well within this many: the budget is never exhausted on the files enumerated.
ReadFuel == 4 * (MaxFileLen + 3 * MaxTokens + 3)
MaxIndexedLen == 7     \* the longest file whose index is looked up has this many lines
MaxSearchLen == 4      \* searched files have 0..MaxSearchLen bytes
MaxSearches == 2       \* search requests in one behaviour
MaxResults == 2        \* options.maxResults is drawn from 1..MaxResults

\* ------------------------------------------------- program constants (scaled)
\* The source sets 1000 lines, 64 KiB and 16 KiB; the model keeps their roles and
\* scales them to the size of the files it enumerates.
INDEX_STRIDE == 2
READ_BUFFER_SIZE == 3
WINDOW == 2
PROGRESS_EVERY == 2

\* ------------------------------------------------------------------- bytes
LF == 10
CR == 13
\* The bytes a file is made of besides the line feed.
ContentBytes == {97}
\* The bytes of the files that are searched, and the queries.
SearchBytes == {97, 98}
Queries == {<<97>>}

VARIABLES
  file,        \* the bytes of the open file (never written by the program)
  pageSize,    \* JsonlReader.pageSize
  indices,     \* JsonlIndexer.indices.get(path): <<>> when the map has no entry
  totalLines,  \* JsonlIndexer.totalLines.get(path): <<>> when undefined, else <<n>>
  activeJobs,  \* JsonlIndexer.activeJobs.get(path), undefined read as FALSE
  job,         \* the locals and position of runIndexingJob
  scans,       \* number of runIndexingJob invocations so far
  events,      \* the onProgress calls of the indexing job, in order
  stopCalled,  \* history: stop() was called while the scan had bytes left to read
  startNoOp,   \* history: startIdx was called and returned at its guard
  reader,      \* the readPage call: idle, in flight (page, checkpoint) or returned (data)
  abortController, \* SearchService.abortController: 0 for null, else the run it belongs to
  runs,        \* the search() calls so far, each with its closure's state
  posted       \* the search messages posted to the webview so far, in order

idxVars == <<indices, totalLines, activeJobs, job, scans, events, stopCalled, startNoOp>>
readVars == <<reader>>
searchVars == <<abortController, runs, posted>>
vars == <<file, pageSize, idxVars, readVars, searchVars>>

\* ------------------------------------------------------------ text helpers
Last(s) == s[Len(s)]
Front(s) == SubSeq(s, 1, Len(s) - 1)
Min(a, b) == IF a < b THEN a ELSE b
Max(a, b) == IF a > b THEN a ELSE b

RECURSIVE SeqsUpTo(_, _)
SeqsUpTo(S, n) ==
  IF n = 0 THEN {<<>>}
  ELSE LET shorter == SeqsUpTo(S, n - 1)
       IN shorter \cup {Append(s, x) : s \in {t \in shorter : Len(t) = n - 1}, x \in S}

\* String.prototype.split('\n'): the pieces between separators, at least one piece.
RECURSIVE SplitAcc(_, _, _, _)
SplitAcc(s, sep, cur, acc) ==
  IF s = <<>> THEN Append(acc, cur)
  ELSE IF Head(s) = sep THEN SplitAcc(Tail(s), sep, <<>>, Append(acc, cur))
  ELSE SplitAcc(Tail(s), sep, Append(cur, Head(s)), acc)

Split(s, sep) == SplitAcc(s, sep, <<>>, <<>>)

\* Buffer.toString('utf-8'): one-, two- and three-byte sequences (three-byte leads
\* from 0xE1, whose continuation bytes are unrestricted); a sequence cut short
\* decodes to one U+FFFD for the bytes it has, a stray continuation byte to U+FFFD.
IsLead(b) == b >= 192 /\ b < 224
IsLead3(b) == b >= 225 /\ b < 240
IsCont(b) == b >= 128 /\ b < 192
Replacement == 65533

RECURSIVE Decode(_)
Decode(bytes) ==
  IF bytes = <<>> THEN <<>>
  ELSE LET b == Head(bytes)
       IN IF b < 128 THEN <<b>> \o Decode(Tail(bytes))
          ELSE IF IsLead(b) /\ Len(bytes) >= 2 /\ IsCont(bytes[2])
            THEN <<(b - 192) * 64 + (bytes[2] - 128)>> \o Decode(SubSeq(bytes, 3, Len(bytes)))
          ELSE IF IsLead3(b) /\ Len(bytes) >= 2 /\ IsCont(bytes[2])
            THEN IF Len(bytes) >= 3 /\ IsCont(bytes[3])
                   THEN <<(b - 224) * 4096 + (bytes[2] - 128) * 64 + (bytes[3] - 128)>>
                        \o Decode(SubSeq(bytes, 4, Len(bytes)))
                   ELSE <<Replacement>> \o Decode(SubSeq(bytes, 3, Len(bytes)))
          ELSE <<Replacement>> \o Decode(Tail(bytes))

\* String.prototype.trim: the white space it removes, among the characters of the
\* files enumerated (U+FEFF is white space to trim).
IsTrimSpace(c) == c \in {9, 10, 11, 12, 13, 32, 160, 65279}

RECURSIVE TrimStart(_)
TrimStart(chars) ==
  IF chars # <<>> /\ IsTrimSpace(Head(chars)) THEN TrimStart(Tail(chars)) ELSE chars

RECURSIVE TrimEnd(_)
TrimEnd(chars) ==
  IF chars # <<>> /\ IsTrimSpace(Last(chars)) THEN TrimEnd(Front(chars)) ELSE chars

Trim(chars) == TrimEnd(TrimStart(chars))

\* JSON.parse's white space: space, tab, line feed, carriage return.
IsJsonSpace(c) == c \in {9, 10, 13, 32}

RECURSIVE JsonStrip(_)
JsonStrip(chars) ==
  IF chars # <<>> /\ IsJsonSpace(Head(chars)) THEN JsonStrip(Tail(chars))
  ELSE IF chars # <<>> /\ IsJsonSpace(Last(chars)) THEN JsonStrip(Front(chars))
  ELSE chars

\* Whether JSON.parse(text) returns rather than throws, for texts over the characters
\* of the files enumerated (digits 1-9, letters, white space, U+FEFF, U+FFFD, accented
\* letters): the only values such a text can spell are the numbers written with the
\* digits 1-9, with JSON white space around them.
JsonParses(text) ==
  LET t == JsonStrip(text)
  IN t # <<>> /\ \A k \in 1..Len(t) : t[k] >= 49 /\ t[k] <= 57

\* Buffer.byteLength(string): the UTF-8 length of the string's characters.
RECURSIVE ByteLength(_)
ByteLength(chars) ==
  IF chars = <<>> THEN 0
  ELSE (IF Head(chars) < 128 THEN 1 ELSE IF Head(chars) < 2048 THEN 2 ELSE 3)
       + ByteLength(Tail(chars))

fileSize == Len(file)

\* fd.read(buffer, 0, length, position) for position >= 0: the bytes read.
FdRead(position, length) ==
  IF position >= fileSize THEN <<>>
  ELSE SubSeq(file, position + 1, Min(fileSize, position + length))

\* --------------------------------------------------------------- JsonlIndexer
SeedCheckpoint == [line |-> 1, offset |-> 0]

NoJob == [pc |-> "none", fd |-> FALSE, fileOffset |-> 0, lineNumber |-> 1,
          lastStoredLine |-> 1, i |-> 0, bytesRead |-> 0]

\* The end of runIndexingJob's try block, reached from both breaks and from the
\* while condition turning false: the count is recorded and the last event emitted.
RecordEnd(j) ==
  /\ totalLines' = <<j.lineNumber>>
  /\ activeJobs' = FALSE
  /\ events' = Append(events, [scannedLines |-> j.lineNumber, num |-> 1, den |-> 1,
                               indexed |-> TRUE])
  /\ job' = [j EXCEPT !.pc = "close"]
  /\ UNCHANGED indices

\* The top of the while loop: the next read is issued only while the job is active.
LoopTop(j) ==
  IF activeJobs
    THEN /\ job' = [j EXCEPT !.pc = "read"]
         /\ UNCHANGED <<indices, totalLines, activeJobs, events>>
    ELSE RecordEnd(j)

StrideReached_EveryLine(lineNumber, lastStoredLine) == lineNumber - lastStoredLine >= 1

\* The condition under which the line just counted gets a checkpoint.
StrideReached(lineNumber, lastStoredLine) == lineNumber - lastStoredLine >= INDEX_STRIDE

\* The index of the first byte at or after position k of the buffer (0-based) whose
\* newline makes the running line count reach the stride; bytesRead when none does.
RECURSIVE NextCheckpointAt(_, _, _, _)
NextCheckpointAt(buf, k, lineNumber, lastStoredLine) ==
  IF k >= Len(buf) THEN [at |-> Len(buf), lineNumber |-> lineNumber]
  ELSE IF buf[k + 1] = LF
    THEN IF StrideReached(lineNumber + 1, lastStoredLine)
           THEN [at |-> k, lineNumber |-> lineNumber + 1]
           ELSE NextCheckpointAt(buf, k + 1, lineNumber + 1, lastStoredLine)
  ELSE NextCheckpointAt(buf, k + 1, lineNumber, lastStoredLine)

CheckpointOffset_BufferStart(fileOffset, k) == fileOffset
CheckpointOffset_AtNewline(fileOffset, k) == fileOffset + k

\* The offset stored with a checkpoint found at buffer position k.
CheckpointOffset(fileOffset, k) == fileOffset + k + 1

\* The for loop over the buffer from position k, up to the next await.
ScanBuffer(j, k) ==
  LET buf == FdRead(j.fileOffset, j.bytesRead)
      hit == NextCheckpointAt(buf, k, j.lineNumber, j.lastStoredLine)
  IN IF hit.at < j.bytesRead
       THEN LET currentTotalOffset == CheckpointOffset(j.fileOffset, hit.at)
            IN /\ indices' = Append(indices, [line |-> hit.lineNumber,
                                              offset |-> currentTotalOffset])
               /\ events' = Append(events, [scannedLines |-> hit.lineNumber,
                                            num |-> currentTotalOffset, den |-> fileSize,
                                            indexed |-> FALSE])
               /\ job' = [j EXCEPT !.pc = "yield", !.i = hit.at,
                                   !.lineNumber = hit.lineNumber,
                                   !.lastStoredLine = hit.lineNumber]
               /\ UNCHANGED <<totalLines, activeJobs>>
       ELSE LET j2 == [j EXCEPT !.lineNumber = hit.lineNumber,
                                !.fileOffset = j.fileOffset + j.bytesRead]
            IN IF j2.fileOffset >= fileSize THEN RecordEnd(j2) ELSE LoopTop(j2)

StartIsNoOp_ActiveOnly == activeJobs

\* startIdx's guard: a job is active or the path has an index entry.
StartIsNoOp == activeJobs \/ indices # <<>>

StartIdx ==
  /\ IF StartIsNoOp
       THEN /\ startNoOp' = TRUE
            /\ UNCHANGED <<indices, totalLines, activeJobs, job, scans, events, stopCalled>>
       ELSE /\ activeJobs' = TRUE
            /\ indices' = <<SeedCheckpoint>>
            /\ job' = [NoJob EXCEPT !.pc = "open"]
            /\ scans' = scans + 1
            /\ UNCHANGED <<totalLines, events, stopCalled, startNoOp>>
  /\ UNCHANGED <<file, pageSize, readVars, searchVars>>

\* fs.promises.open resolved.
IdxOpen ==
  /\ job.pc = "open"
  /\ job' = [job EXCEPT !.pc = "stat", !.fd = TRUE]
  /\ UNCHANGED <<file, pageSize, indices, totalLines, activeJobs, scans, events,
                 stopCalled, startNoOp, readVars, searchVars>>

\* fd.stat resolved: the locals are set and the while loop is entered.
IdxStat ==
  /\ job.pc = "stat"
  /\ LoopTop(job)
  /\ UNCHANGED <<file, pageSize, scans, stopCalled, startNoOp, readVars, searchVars>>

\* fd.read resolved.
IdxRead ==
  /\ job.pc = "read"
  /\ LET n == Len(FdRead(job.fileOffset, READ_BUFFER_SIZE))
         j == [job EXCEPT !.bytesRead = n]
     IN IF n = 0 THEN RecordEnd(j) ELSE ScanBuffer(j, 0)
  /\ UNCHANGED <<file, pageSize, scans, stopCalled, startNoOp, readVars, searchVars>>

\* setImmediate fired: the for loop goes on after the checkpoint.
IdxResume ==
  /\ job.pc = "yield"
  /\ ScanBuffer(job, job.i + 1)
  /\ UNCHANGED <<file, pageSize, scans, stopCalled, startNoOp, readVars, searchVars>>

IdxClose_NoCatch ==
  /\ job.pc \in {"close", "closeErr"}
  /\ job' = [job EXCEPT !.pc = IF job.pc = "close" THEN "done" ELSE "failed", !.fd = FALSE]
  /\ UNCHANGED <<file, pageSize, indices, totalLines, activeJobs, scans, events, stopCalled,
                 startNoOp, readVars, searchVars>>

\* fd.close resolved in the finally block; after a failed read the rejection then
\* reaches startIdx's catch, which marks the job inactive.
IdxClose ==
  /\ job.pc \in {"close", "closeErr"}
  /\ job' = [job EXCEPT !.pc = IF job.pc = "close" THEN "done" ELSE "failed", !.fd = FALSE]
  /\ activeJobs' = IF job.pc = "closeErr" THEN FALSE ELSE activeJobs
  /\ UNCHANGED <<file, pageSize, indices, totalLines, scans, events, stopCalled, startNoOp, readVars, searchVars>>

\* An I/O error: open and stat reject outside the try block (catch only), read
\* rejects inside it (finally, then catch).
IdxFail ==
  /\ job.pc \in {"open", "stat", "read"}
  /\ IF job.pc = "read"
       THEN /\ job' = [job EXCEPT !.pc = "closeErr"]
            /\ UNCHANGED activeJobs
       ELSE /\ job' = [job EXCEPT !.pc = "failed"]
            /\ activeJobs' = FALSE
  /\ UNCHANGED <<file, pageSize, indices, totalLines, scans, events, stopCalled, startNoOp, readVars, searchVars>>

JobRunning == job.pc \in {"open", "stat", "read", "yield"}

\* The scan has bytes of the file it has not read yet.
MoreToRead ==
  \/ job.pc \in {"open", "stat"} /\ fileSize > 0
  \/ job.pc = "read" /\ job.fileOffset < fileSize
  \/ job.pc = "yield" /\ job.fileOffset + job.bytesRead < fileSize

Stop_ClearsIndex ==
  /\ activeJobs' = FALSE
  /\ indices' = <<>>
  /\ stopCalled' = (stopCalled \/ (JobRunning /\ MoreToRead))
  /\ UNCHANGED <<file, pageSize, totalLines, job, scans, events, startNoOp, readVars, searchVars>>

Stop ==
  /\ activeJobs' = FALSE
  /\ stopCalled' = (stopCalled \/ (JobRunning /\ MoreToRead))
  /\ UNCHANGED <<file, pageSize, indices, totalLines, job, scans, events, startNoOp, readVars, searchVars>>

getNearestOffset_Last(list, targetLine) ==
  IF list = <<>> THEN SeedCheckpoint ELSE list[Len(list)]

\* getNearestOffset: binary search for the last entry with line <= targetLine.
RECURSIVE BinarySearch(_, _, _, _)
BinarySearch(list, low, high, targetLine) ==
  IF low > high THEN list[Max(0, low - 1) + 1]
  ELSE LET mid == (low + high) \div 2
       IN IF list[mid + 1].line = targetLine THEN list[mid + 1]
          ELSE IF list[mid + 1].line < targetLine
            THEN BinarySearch(list, mid + 1, high, targetLine)
          ELSE BinarySearch(list, low, mid - 1, targetLine)

getNearestOffset(list, targetLine) ==
  IF list = <<>> THEN SeedCheckpoint
  ELSE BinarySearch(list, 0, Len(list) - 1, targetLine)

getTotalLines == totalLines

estimateTotalLines_PerByte ==
  IF totalLines # <<>> /\ totalLines[1] # 0 THEN totalLines[1]
  ELSE IF Len(indices) <= 1 THEN 0
  ELSE (fileSize * Last(indices).offset) \div Last(indices).line

\* estimateTotalLines: Math.floor(fileSize / (offset / line)) of the last entry.  The
\* source divides doubles; for files of fewer than 9 bytes the floor of that
\* quotient is the integer quotient written here (at fileSize 9, line 7, offset 9
\* the doubles give 6, the integers 7).
estimateTotalLines ==
  IF totalLines # <<>> /\ totalLines[1] # 0 THEN totalLines[1]
  ELSE IF Len(indices) <= 1 THEN 0
  ELSE (fileSize * Last(indices).line) \div Last(indices).offset

\* ---------------------------------------------------------------- JsonlReader
\* The try/catch around JSON.parse, entered only for text that trim() leaves
\* non-empty: parsed is "value" or null, error is set (TRUE) or undefined (FALSE).
ParseError_NoBlankGuard(text) == ~JsonParses(text)
ParseError(text) == Trim(text) # <<>> /\ ~JsonParses(text)
Parsed(text) == IF Trim(text) # <<>> /\ JsonParses(text) THEN "value" ELSE "null"

\* parseLine: a trailing carriage return is removed; byteOffset is the argument.
parseLine(raw, lineNumber, offset) ==
  LET cleanRaw == IF raw # <<>> /\ Last(raw) = CR THEN Front(raw) ELSE raw
  IN [lineNumber |-> lineNumber, raw |-> cleanRaw, parsed |-> Parsed(cleanRaw),
      error |-> ParseError(cleanRaw), byteOffset |-> offset]

\* The for loop over the lines of one chunk: a line at or after startLine becomes a
\* record, and the loop breaks once count records are held.
RECURSIVE PushLines(_, _, _, _, _)
PushLines(lines, currentLineNum, result, startLine, count) ==
  IF lines = <<>> THEN [currentLineNum |-> currentLineNum, result |-> result]
  ELSE LET r == IF currentLineNum >= startLine
                  THEN Append(result, parseLine(Head(lines), currentLineNum, 0))
                  ELSE result
       IN IF Len(r) >= count
            THEN [currentLineNum |-> currentLineNum + 1, result |-> r]
            ELSE PushLines(Tail(lines), currentLineNum + 1, r, startLine, count)

\* After the while loop: a non-empty leftover becomes the last record.
PushLeftover(leftovers, currentLineNum, result, startLine, count) ==
  IF leftovers # <<>> /\ Len(result) < count /\ currentLineNum >= startLine
    THEN Append(result, parseLine(leftovers, currentLineNum, 0))
    ELSE result

\* The position the next read starts at: past the bytes read, moved back by the
\* byte length of the leftover text.
NextReadOffset(fileOffset, bytesRead, leftovers) ==
  fileOffset + bytesRead - ByteLength(leftovers)

\* The while loop of readLinesFromOffset.  fd.read with position -1 reads at the
\* handle's own position (fdPos, which only such reads move), and a position below
\* -1 is rejected.  outcome: "ok" (returned), "error" (the read rejected), "hang"
\* (the loop was still running after ReadFuel iterations).
RECURSIVE ReadLoop(_, _, _, _, _, _, _, _, _)
ReadLoop(window, currentLineNum, fileOffset, fdPos, leftovers, result, startLine, count, fuel) ==
  IF Len(result) >= count
    THEN [lines |-> PushLeftover(leftovers, currentLineNum, result, startLine, count),
          outcome |-> "ok"]
  ELSE IF fileOffset < -1 THEN [lines |-> <<>>, outcome |-> "error"]
  ELSE LET position == IF fileOffset = -1 THEN fdPos ELSE fileOffset
           bytes == FdRead(position, window)
           bytesRead == Len(bytes)
       IN IF bytesRead = 0
            THEN [lines |-> PushLeftover(leftovers, currentLineNum, result, startLine, count),
                  outcome |-> "ok"]
          ELSE IF fuel = 0 THEN [lines |-> <<>>, outcome |-> "hang"]
          ELSE LET chunk == leftovers \o Decode(bytes)
                   lines == Split(chunk, LF)
                   isEOF == (fileOffset + bytesRead) >= fileSize
                   left == IF isEOF THEN <<>> ELSE Last(lines)
                   rest == IF isEOF THEN lines ELSE Front(lines)
                   pushed == PushLines(rest, currentLineNum, result, startLine, count)
               IN ReadLoop(window, pushed.currentLineNum,
                           NextReadOffset(fileOffset, bytesRead, left),
                           IF fileOffset = -1 THEN fdPos + bytesRead ELSE fdPos,
                           left, pushed.result, startLine, count, fuel - 1)

readLinesFromOffset(checkpoint, startLine, count) ==
  ReadLoop(WINDOW, checkpoint.line, checkpoint.offset, 0, <<>>, <<>>, startLine, count,
           ReadFuel)

\* The same read with a buffer that holds the whole file, as the source's 16 KiB
\* buffer does for the files enumerated here.
readLinesOnePass(checkpoint, startLine, count) ==
  ReadLoop(Max(fileSize, 1), checkpoint.line, checkpoint.offset, 0, <<>>, <<>>, startLine,
           count, ReadFuel)

targetStartLine(p) == (p - 1) * pageSize + 1

CeilDiv(a, b) == (a + b - 1) \div b

\* readPage after its read has finished: the records and the pagination metadata
\* taken from the indexer's state at that moment.
TotalPages_Floor(safeTotalLines) ==
  LET pages == safeTotalLines \div pageSize
  IN IF pages = 0 THEN 1 ELSE pages

\* Math.ceil(safeTotalLines / pageSize), and 1 in place of 0.
TotalPages(safeTotalLines) ==
  LET pages == CeilDiv(safeTotalLines, pageSize)
  IN IF pages = 0 THEN 1 ELSE pages

PageData(p, read) ==
  LET exactTotal == getTotalLines
      total == IF exactTotal # <<>> THEN exactTotal[1] ELSE estimateTotalLines
      safeTotalLines == IF total = 0 THEN 1 ELSE total
  IN [lines |-> read.lines, outcome |-> read.outcome, currentPage |-> p,
      totalPages |-> TotalPages(safeTotalLines), totalLines |-> safeTotalLines,
      pageSize |-> pageSize, isIndexed |-> exactTotal # <<>>]

\* readLine: the first record of a read of one line, null (<<>>) when there is none.
readLine(lineNumber) ==
  LET read == readLinesFromOffset(getNearestOffset(indices, lineNumber), lineNumber, 1)
  IN [outcome |-> read.outcome,
      line |-> IF read.lines # <<>> THEN <<read.lines[1]>> ELSE <<>>]

getPageForLine(lineNumber) == CeilDiv(lineNumber, pageSize)

\* The pages a session asks for: those that start no further than one line past
\* the end of the longest file.
LastPage == ((MaxFileLen + 1) \div pageSize) + 1
PageNumbers == 1..LastPage

Idle == [pc |-> "idle"]

ReadPageCall_FromSeed(p) ==
  /\ reader.pc # "reading"
  /\ reader' = [pc |-> "reading", page |-> p, checkpoint |-> SeedCheckpoint]
  /\ UNCHANGED <<file, pageSize, idxVars, searchVars>>

\* readPage up to its first await: the checkpoint is looked up.
ReadPageCall(p) ==
  /\ reader.pc # "reading"
  /\ reader' = [pc |-> "reading", page |-> p,
                checkpoint |-> getNearestOffset(indices, targetStartLine(p))]
  /\ UNCHANGED <<file, pageSize, idxVars, searchVars>>

\* readPage from the end of its reads to its return.
ReadPageReturn ==
  /\ reader.pc = "reading"
  /\ LET p == reader.page
         read == readLinesFromOffset(reader.checkpoint, targetStartLine(p), pageSize)
     IN reader' = [pc |-> "returned", checkpoint |-> reader.checkpoint,
                   data |-> PageData(p, read)]
  /\ UNCHANGED <<file, pageSize, idxVars, searchVars>>

\* -------------------------------------------------------------- SearchService
\* String.prototype.toLowerCase on the ASCII letters.
ToLower(chars) ==
  [k \in 1..Len(chars) |-> IF chars[k] >= 65 /\ chars[k] <= 90 THEN chars[k] + 32 ELSE chars[k]]

\* String.prototype.includes.
Includes(line, q) ==
  \E k \in 0..(Len(line) - Len(q)) : SubSeq(line, k + 1, k + Len(q)) = q

\* createMatcher, the plain text branch: whether the matcher returns a match.
Matches(options, line) ==
  IF options.caseSensitive THEN Includes(line, options.query)
  ELSE Includes(ToLower(line), ToLower(options.query))

LeftParen == 40

\* Whether new RegExp(query, flags) returns rather than throws, for the queries
\* enumerated (letters and "("): a "(" is never closed there, so the constructor
\* throws on every query that holds one.
IsValidRegex(query) == \A k \in 1..Len(query) : query[k] # LeftParen

UsesRegex_NoCatch(options) == options.useRegex

\* createMatcher returns the regex matcher: useRegex is set and the constructor
\* did not throw.
UsesRegex(options) == options.useRegex /\ IsValidRegex(options.query)

\* regex.exec(line) of a regular expression made of letters, with the flags 'g' or
\* 'gi': the search starts at lastIndex; a match leaves lastIndex at its end, a
\* failure at 0.
RegexExec(options, lastIndex, line) ==
  LET q == IF options.caseSensitive THEN options.query ELSE ToLower(options.query)
      l == IF options.caseSensitive THEN line ELSE ToLower(line)
      starts == {k \in lastIndex..(Len(l) - Len(q)) : SubSeq(l, k + 1, k + Len(q)) = q}
  IN IF starts = {} THEN [matched |-> FALSE, lastIndex |-> 0]
     ELSE LET first == CHOOSE k \in starts : \A j \in starts : k <= j
          IN [matched |-> TRUE, lastIndex |-> first + Len(q)]

\* The matcher createMatcher returned, called on a line: whether it returns a match,
\* and the lastIndex its regular expression is left with.
MatcherCall(options, lastIndex, line) ==
  IF UsesRegex(options) THEN RegexExec(options, lastIndex, line)
  ELSE [matched |-> Matches(options, line), lastIndex |-> lastIndex]

\* The stream's decoder keeps the bytes of an unfinished character for the next chunk.
DecodeComplete(bytes) ==
  IF bytes # <<>> /\ IsLead(Last(bytes)) THEN Decode(Front(bytes)) ELSE Decode(bytes)

\* The text the read stream hands to readline for the n bytes after position pos.
StreamText(pos, n) ==
  LET before == DecodeComplete(SubSeq(file, 1, pos))
      after == DecodeComplete(SubSeq(file, 1, pos + n))
  IN SubSeq(after, Len(before) + 1, Len(after))

\* readline's split of a string at \n, \r\n and lone \r: the finished lines and the
\* unfinished rest.
RECURSIVE RlSplit(_, _, _)
RlSplit(text, cur, acc) ==
  IF text = <<>> THEN [lines |-> acc, rest |-> cur]
  ELSE IF Head(text) = LF THEN RlSplit(Tail(text), <<>>, Append(acc, cur))
  ELSE IF Head(text) = CR
    THEN IF Len(text) >= 2 /\ text[2] = LF
           THEN RlSplit(SubSeq(text, 3, Len(text)), <<>>, Append(acc, cur))
           ELSE RlSplit(Tail(text), <<>>, Append(acc, cur))
  ELSE RlSplit(Tail(text), Append(cur, Head(text)), acc)

HasLineEnding(text) == \E k \in 1..Len(text) : text[k] \in {LF, CR}

NewRun(options) ==
  [options |-> options, aborted |-> FALSE, results |-> <<>>, lineNumber |-> 0,
   byteOffset |-> 0, pos |-> 0, lineBuf |-> <<>>, sawReturn |-> FALSE,
   closed |-> FALSE, settled |-> FALSE, delivered |-> FALSE,
   interrupted |-> FALSE, cancelled |-> FALSE, rejected |-> FALSE, out |-> <<>>,
   lastIndex |-> 0, session |-> 1]

\* The provider calls resetAbortState() and wasSearchAborted(), which the
\* SearchService under src/ does not define.  They are modelled from the
\* specification's SearchResult.interrupted: true if the search was cancelled, or
\* stopped early by the cap, that is with a matching line still ahead (and not when
\* the cap is reached with nothing left to report).
SearchLines ==
  LET split == RlSplit(Decode(file), <<>>, <<>>)
  IN IF split.rest = <<>> THEN split.lines ELSE Append(split.lines, split.rest)

MatchAhead(run) ==
  \E k \in (run.lineNumber + 1)..Len(SearchLines) : Matches(run.options, SearchLines[k])

resetAbortState(run) == [run EXCEPT !.interrupted = FALSE]
MarkAborted(run) == IF run.settled THEN run ELSE [run EXCEPT !.interrupted = TRUE]
MarkCapped(run) ==
  IF run.settled \/ ~MatchAhead(run) THEN run ELSE [run EXCEPT !.interrupted = TRUE]
wasSearchAborted(run) == run.interrupted

\* resolve(results): the first call settles the promise, later calls do nothing.
Resolve(run) == [run EXCEPT !.settled = TRUE]

OnClose_NoProgress(run) == IF ~run.aborted THEN Resolve(run) ELSE run

\* reject(error): settles the promise as rejected unless it is settled already.
Reject(run) == IF run.settled THEN run ELSE [run EXCEPT !.settled = TRUE, !.rejected = TRUE]

OnError_NoReject(run) == [run EXCEPT !.closed = TRUE]

\* The stream's 'error' (a failed open or read): the promise is rejected; the
\* destroyed stream sends nothing more, and readline gets no 'end'.
OnError(run) == Reject([run EXCEPT !.closed = TRUE])

\* The 'close' handler: an unaborted search reports 100% and resolves.
OnClose(run) ==
  IF ~run.aborted
    THEN Resolve([run EXCEPT !.out = Append(@, [type |-> "searchProgress",
                                                  current |-> fileSize, total |-> fileSize])])
    ELSE run

\* cleanup(): rl.close() emits 'close' the first time; stream.destroy().
Cleanup(run) == IF run.closed THEN run ELSE OnClose([run EXCEPT !.closed = TRUE])

AbortListener_NoCleanup(run) == Resolve(run)
AbortListener_NoResolve(run) == Cleanup(run)

\* The 'abort' listener.
AbortListener(run) == Resolve(Cleanup(run))

\* Whether the search stops at this match.
CapReached(run) == Len(run.results) >= run.options.maxResults

\* The 'line' handler.
OnLine(run, raw) ==
  IF run.aborted THEN run
  ELSE LET matchInfo == MatcherCall(run.options, run.lastIndex, raw)
           counted == [run EXCEPT !.lineNumber = @ + 1,
                                  !.byteOffset = @ + ByteLength(raw) + 1,
                                  !.lastIndex = matchInfo.lastIndex]
           progress == IF counted.lineNumber % PROGRESS_EVERY = 0
                         THEN [counted EXCEPT !.out = Append(@,
                                 [type |-> "searchProgress",
                                  current |-> counted.byteOffset, total |-> fileSize])]
                         ELSE counted
       IN IF matchInfo.matched
            THEN LET pushed == [counted EXCEPT !.results = Append(@,
                                  [lineNumber |-> counted.lineNumber, raw |-> raw,
                                   parsed |-> Parsed(raw), error |-> ParseError(raw),
                                   byteOffset |-> run.byteOffset])]
                 IN IF CapReached(pushed)
                      THEN Resolve(Cleanup(MarkCapped(pushed)))
                      ELSE [pushed EXCEPT !.out = progress.out]
            ELSE progress

\* readline emits every line of a chunk in one loop, which a close() made by a
\* handler does not leave: the lines after it still reach the handler.
RECURSIVE EmitLines(_, _)
EmitLines(run, lines) ==
  IF lines = <<>> THEN run ELSE EmitLines(OnLine(run, Head(lines)), Tail(lines))

\* One 'data' event of n bytes reaching readline.
OnData(run, n) ==
  LET text0 == StreamText(run.pos, n)
      text == IF run.sawReturn /\ text0 # <<>> /\ Head(text0) = LF THEN Tail(text0) ELSE text0
      moved == [run EXCEPT !.pos = @ + n, !.sawReturn = FALSE]
  IN IF HasLineEnding(text)
       THEN LET whole == run.lineBuf \o text
                split == RlSplit(whole, <<>>, <<>>)
                held == [moved EXCEPT !.lineBuf = split.rest,
                                      !.sawReturn = (Last(whole) = CR)]
            IN EmitLines(held, split.lines)
       ELSE [moved EXCEPT !.lineBuf = @ \o text]

\* The stream's 'end': readline emits the unfinished line, if any, and closes.
OnEnd(run) ==
  LET emitted == IF run.lineBuf # <<>>
                   THEN OnLine([run EXCEPT !.lineBuf = <<>>], run.lineBuf)
                   ELSE run
  IN Cleanup(emitted)

\* The messages a handler posted go out in order; the run keeps none.
Flush(run) == [run EXCEPT !.out = <<>>]
Tagged(msgs, r) == [k \in 1..Len(msgs) |-> msgs[k] @@ [run |-> r]]

\* A resolved promise whose continuation (handleSearch's postMessage) has not run
\* yet: it runs before any other event is handled.
PendingDelivery == \E r \in 1..Len(runs) : runs[r].settled /\ ~runs[r].delivered

\* cancel(): the controller, if any, is aborted and forgotten.  (cancelled is
\* history: the abort came while the search was still running.)
Cancelled(rs) ==
  IF abortController # 0 /\ ~rs[abortController].aborted
    THEN [rs EXCEPT ![abortController] =
            AbortListener(MarkAborted([@ EXCEPT !.aborted = TRUE,
                                                !.cancelled = ~rs[abortController].settled]))]
    ELSE rs

SearchOptions ==
  [query : Queries, caseSensitive : {TRUE}, useRegex : {FALSE}, maxResults : 1..MaxResults,
   showErrorOnly : {FALSE}]

\* The 'search' message: resetAbortState(), then handleSearch up to its await.
\* (The webview sends one and the same maxResults with every request of a session.)
Search(options) ==
  /\ ~PendingDelivery
  /\ Len(runs) < MaxSearches
  /\ runs # <<>> => options.maxResults = runs[1].options.maxResults
  /\ runs' = Append(Cancelled(runs), resetAbortState(NewRun(options)))
  /\ abortController' = Len(runs) + 1
  /\ UNCHANGED <<file, pageSize, idxVars, readVars, posted>>

\* The 'search' message of the editor session s.  Every session's handler calls the
\* one exported searchService.
SearchIn(s, options) ==
  /\ ~PendingDelivery
  /\ Len(runs) < MaxSearches
  /\ runs # <<>> => options.maxResults = runs[1].options.maxResults
  /\ runs' = Append(Cancelled(runs),
                    [resetAbortState(NewRun(options)) EXCEPT !.session = s])
  /\ abortController' = Len(runs) + 1
  /\ UNCHANGED <<file, pageSize, idxVars, readVars, posted>>

CancelSearch_StopsIndexing ==
  /\ ~PendingDelivery
  /\ runs' = Cancelled(runs)
  /\ abortController' = 0
  /\ activeJobs' = FALSE
  /\ UNCHANGED <<file, pageSize, indices, totalLines, job, scans, events, stopCalled,
                 startNoOp, readVars, posted>>

\* The 'cancelSearch' message.
CancelSearch ==
  /\ ~PendingDelivery
  /\ runs' = Cancelled(runs)
  /\ abortController' = 0
  /\ UNCHANGED <<file, pageSize, idxVars, readVars, posted>>

\* A chunk of n bytes arrives from the read stream of run r.
StreamData(r, n) ==
  /\ ~PendingDelivery
  /\ ~runs[r].closed
  /\ runs[r].pos + n <= fileSize
  /\ LET after == OnData(runs[r], n)
     IN /\ runs' = [runs EXCEPT ![r] = Flush(after)]
        /\ posted' = posted \o Tagged(after.out, r)
  /\ UNCHANGED <<file, pageSize, idxVars, readVars, abortController>>

\* The read stream of run r ends.
StreamEnd(r) ==
  /\ ~PendingDelivery
  /\ ~runs[r].closed
  /\ runs[r].pos = fileSize
  /\ LET after == OnEnd(runs[r])
     IN /\ runs' = [runs EXCEPT ![r] = Flush(after)]
        /\ posted' = posted \o Tagged(after.out, r)
  /\ UNCHANGED <<file, pageSize, idxVars, readVars, abortController>>

\* Once the stream is closed and the promise's continuation has run, nothing reads
\* the locals of the search() call any more: the model forgets the stream's position.
Finished(run) ==
  IF run.closed
    THEN [run EXCEPT !.delivered = TRUE, !.pos = 0, !.lineBuf = <<>>, !.sawReturn = FALSE,
                     !.byteOffset = 0, !.lastIndex = 0]
    ELSE [run EXCEPT !.delivered = TRUE]

\* The read stream of run r fails.
StreamError(r) ==
  /\ ~PendingDelivery
  /\ ~runs[r].closed
  /\ runs' = [runs EXCEPT ![r] = OnError(@)]
  /\ UNCHANGED <<file, pageSize, idxVars, readVars, abortController, posted>>

\* handleSearch after its await: the results array as it is now is posted; after a
\* rejection the message handler's catch posts the error instead.
Deliver(r) ==
  /\ runs[r].settled
  /\ ~runs[r].delivered
  /\ runs' = [runs EXCEPT ![r] = Finished(@)]
  /\ posted' = Append(posted,
                 IF runs[r].rejected
                   THEN [type |-> "error", run |-> r]
                   ELSE [type |-> "searchResults", run |-> r,
                         results |-> runs[r].results,
                         interrupted |-> wasSearchAborted(runs[r])])
  /\ UNCHANGED <<file, pageSize, idxVars, readVars, abortController>>

\* ------------------------------------------------------------ specification
Files == SeqsUpTo(ContentBytes \cup {LF}, MaxFileLen)

Init ==
  /\ file \in Files
  /\ pageSize \in 1..MaxPageSize
  /\ indices = <<>>
  /\ totalLines = <<>>
  /\ activeJobs = FALSE
  /\ job = NoJob
  /\ scans = 0
  /\ events = <<>>
  /\ stopCalled = FALSE
  /\ startNoOp = FALSE
  /\ reader = Idle
  /\ abortController = 0
  /\ runs = <<>>
  /\ posted = <<>>

Next ==
  \/ StartIdx
  \/ IdxOpen
  \/ IdxStat
  \/ IdxRead
  \/ IdxResume
  \/ IdxClose
  \/ IdxFail
  \/ Stop
  \/ \E p \in PageNumbers : ReadPageCall(p)
  \/ ReadPageReturn

Spec == Init /\ [][Next]_vars

\* The reads of readLinesFromOffset are completed by the event loop whatever the
\* indexing job does: the job holds the thread for one buffer at most, then awaits.
\* This is weak fairness of ReadPageReturn, with its enabling condition written
\* out: the action is enabled exactly while a read is pending.
ReadPending == reader.pc = "reading"

FairReadSpec == Spec /\ (<>[]ReadPending => []<><<ReadPageReturn>>_vars)

\* The search engine on its own: the same session, with files that hold lines the
\* query matches and lines it does not.
SearchFiles == SeqsUpTo(SearchBytes \cup {LF}, MaxSearchLen)

SearchInit ==
  /\ file \in SearchFiles
  /\ pageSize = 1
  /\ indices = <<>>
  /\ totalLines = <<>>
  /\ activeJobs = FALSE
  /\ job = NoJob
  /\ scans = 0
  /\ events = <<>>
  /\ stopCalled = FALSE
  /\ startNoOp = FALSE
  /\ reader = Idle
  /\ abortController = 0
  /\ runs = <<>>
  /\ posted = <<>>

SearchNext ==
  \/ \E options \in SearchOptions : Search(options)
  \/ CancelSearch
  \/ \E r \in 1..Len(runs) : \E n \in 1..MaxSearchLen : StreamData(r, n)
  \/ \E r \in 1..Len(runs) : StreamEnd(r)
  \/ \E r \in 1..Len(runs) : Deliver(r)

SearchSpec == SearchInit /\ [][SearchNext]_vars

\* A settled promise's continuation is a microtask: the event loop always runs it.
FairSearchSpec == SearchSpec /\ WF_vars(\E r \in 1..Len(runs) : Deliver(r))

\* The reader on text files: characters of one, two and three bytes (a letter, a
\* digit, a space, a carriage return, U+00E9, U+FEFF) and line feeds.
Characters == {<<LF>>, <<97>>, <<49>>, <<32>>, <<CR>>, <<195, 169>>, <<239, 187, 191>>}

RECURSIVE TextsUpTo(_)
TextsUpTo(n) ==
  IF n = 0 THEN {<<>>}
  ELSE LET shorter == TextsUpTo(n - 1)
       IN shorter \cup {t \o c : t \in shorter, c \in Characters}

TextFiles == TextsUpTo(MaxTokens)

TextInit ==
  /\ file \in TextFiles
  /\ pageSize \in 1..MaxPageSize
  /\ indices = <<>>
  /\ totalLines = <<>>
  /\ activeJobs = FALSE
  /\ job = NoJob
  /\ scans = 0
  /\ events = <<>>
  /\ stopCalled = FALSE
  /\ startNoOp = FALSE
  /\ reader = Idle
  /\ abortController = 0
  /\ runs = <<>>
  /\ posted = <<>>

TextNext ==
  \/ \E p \in PageNumbers : ReadPageCall(p)
  \/ ReadPageReturn

TextSpec == TextInit /\ [][TextNext]_vars

\* The index of a file of many short lines, looked up while it is built and after.
RECURSIVE Repeat(_, _)
Repeat(x, n) == IF n = 0 THEN <<>> ELSE Append(Repeat(x, n - 1), x)

IndexedFiles == {Repeat(LF, n) : n \in 0..MaxIndexedLen}

LookupPages == 1..(MaxIndexedLen + 2)

LookupInit ==
  /\ file \in IndexedFiles
  /\ pageSize \in 1..MaxPageSize
  /\ indices = <<>>
  /\ totalLines = <<>>
  /\ activeJobs = FALSE
  /\ job = NoJob
  /\ scans = 0
  /\ events = <<>>
  /\ stopCalled = FALSE
  /\ startNoOp = FALSE
  /\ reader = Idle
  /\ abortController = 0
  /\ runs = <<>>
  /\ posted = <<>>

LookupNext ==
  \/ StartIdx
  \/ IdxOpen
  \/ IdxStat
  \/ IdxRead
  \/ IdxResume
  \/ IdxClose
  \/ \E p \in LookupPages : ReadPageCall(p)
  \/ ReadPageReturn

LookupSpec == LookupInit /\ [][LookupNext]_vars

\* The searches with streams that can fail.  The operating system completes every
\* read of an open stream (with data, the end or an error), and the event loop
\* runs every settled promise's continuation.
IoOptions == {options \in SearchOptions : options.maxResults = 1}

SearchIoNext ==
  \/ \E options \in IoOptions : Search(options)
  \/ CancelSearch
  \/ \E r \in 1..Len(runs) : \E n \in 1..MaxSearchLen : StreamData(r, n)
  \/ \E r \in 1..Len(runs) : StreamEnd(r)
  \/ \E r \in 1..Len(runs) : StreamError(r)
  \/ \E r \in 1..Len(runs) : Deliver(r)

StreamStep(r) ==
  /\ r <= Len(runs)
  /\ \/ StreamError(r)
     \/ StreamEnd(r)
     \/ \E n \in 1..MaxSearchLen : StreamData(r, n)

IoFiles == SeqsUpTo(ContentBytes \cup {LF}, MaxSearchLen)

SearchIoInit ==
  /\ file \in IoFiles
  /\ pageSize = 1
  /\ indices = <<>>
  /\ totalLines = <<>>
  /\ activeJobs = FALSE
  /\ job = NoJob
  /\ scans = 0
  /\ events = <<>>
  /\ stopCalled = FALSE
  /\ startNoOp = FALSE
  /\ reader = Idle
  /\ abortController = 0
  /\ runs = <<>>
  /\ posted = <<>>

SearchIoSpec ==
  /\ SearchIoInit
  /\ [][SearchIoNext]_vars
  /\ WF_vars(\E r \in 1..Len(runs) : Deliver(r))
  /\ \A r \in 1..MaxSearches : WF_vars(StreamStep(r))

\* One search on its own, as the webview's two buttons request it: the query of the
\* search box or the empty query of the "errors" button, with or without
\* showErrorOnly, over files whose lines are valid JSON, invalid JSON or blank.  The
\* cap is out of reach, as the webview's 1000 is for these files.
JsonBytes == {97, 49, 32}
JsonFiles == SeqsUpTo(JsonBytes \cup {LF}, MaxSearchLen)

SoloOptions ==
  [query : {<<>>, <<97>>}, caseSensitive : {FALSE}, useRegex : {FALSE},
   maxResults : {MaxSearchLen + 2}, showErrorOnly : BOOLEAN]

SoloInit ==
  /\ file \in JsonFiles
  /\ pageSize = 1
  /\ indices = <<>>
  /\ totalLines = <<>>
  /\ activeJobs = FALSE
  /\ job = NoJob
  /\ scans = 0
  /\ events = <<>>
  /\ stopCalled = FALSE
  /\ startNoOp = FALSE
  /\ reader = Idle
  /\ abortController = 0
  /\ runs = <<>>
  /\ posted = <<>>

SoloNext ==
  \/ \E options \in SoloOptions : runs = <<>> /\ Search(options)
  \/ \E n \in 1..MaxSearchLen : runs # <<>> /\ StreamData(1, n)
  \/ runs # <<>> /\ StreamEnd(1)
  \/ runs # <<>> /\ Deliver(1)

SoloSearchSpec == SoloInit /\ [][SoloNext]_vars

\* One search with or without useRegex, for a query that is a regular expression
\* ("a") and for one that is not ("("), over files that hold both characters.
RegexBytes == {97, LeftParen}
RegexFiles == SeqsUpTo(RegexBytes \cup {LF}, MaxSearchLen)

RegexOptions ==
  [query : {<<97>>, <<LeftParen>>}, caseSensitive : BOOLEAN, useRegex : BOOLEAN,
   maxResults : {MaxSearchLen + 2}, showErrorOnly : {FALSE}]

RegexInit ==
  /\ file \in RegexFiles
  /\ pageSize = 1
  /\ indices = <<>>
  /\ totalLines = <<>>
  /\ activeJobs = FALSE
  /\ job = NoJob
  /\ scans = 0
  /\ events = <<>>
  /\ stopCalled = FALSE
  /\ startNoOp = FALSE
  /\ reader = Idle
  /\ abortController = 0
  /\ runs = <<>>
  /\ posted = <<>>

RegexNext ==
  \/ \E options \in RegexOptions : runs = <<>> /\ Search(options)
  \/ \E n \in 1..MaxSearchLen : runs # <<>> /\ StreamData(1, n)
  \/ runs # <<>> /\ StreamEnd(1)
  \/ runs # <<>> /\ Deliver(1)

RegexSpec == RegexInit /\ [][RegexNext]_vars

\* One search, with a stream that can fail, while the file is being indexed.
SessionNext ==
  \/ StartIdx
  \/ IdxOpen
  \/ IdxStat
  \/ IdxRead
  \/ IdxResume
  \/ IdxClose
  \/ \E options \in IoOptions : runs = <<>> /\ Search(options)
  \/ CancelSearch
  \/ \E n \in 1..MaxSearchLen : runs # <<>> /\ StreamData(1, n)
  \/ runs # <<>> /\ StreamEnd(1)
  \/ runs # <<>> /\ StreamError(1)
  \/ runs # <<>> /\ Deliver(1)

SessionSpec == SearchIoInit /\ [][SessionNext]_vars

\* One search of every line (the empty query) or of the lines with an "a", over files
\* whose lines end in a line feed, a carriage return and line feed, or a carriage
\* return alone, while the file is being indexed.
NumberingFiles == SeqsUpTo({97, CR, LF}, MaxSearchLen)

NumberingOptions ==
  [query : {<<>>, <<97>>}, caseSensitive : {TRUE}, useRegex : {FALSE},
   maxResults : {MaxSearchLen + 2}, showErrorOnly : {FALSE}]

NumberingInit ==
  /\ file \in NumberingFiles
  /\ pageSize = 1
  /\ indices = <<>>
  /\ totalLines = <<>>
  /\ activeJobs = FALSE
  /\ job = NoJob
  /\ scans = 0
  /\ events = <<>>
  /\ stopCalled = FALSE
  /\ startNoOp = FALSE
  /\ reader = Idle
  /\ abortController = 0
  /\ runs = <<>>
  /\ posted = <<>>

NumberingNext ==
  \/ StartIdx
  \/ IdxOpen
  \/ IdxStat
  \/ IdxRead
  \/ IdxResume
  \/ IdxClose
  \/ \E options \in NumberingOptions : runs = <<>> /\ Search(options)
  \/ \E n \in 1..MaxSearchLen : runs # <<>> /\ StreamData(1, n)
  \/ runs # <<>> /\ StreamEnd(1)
  \/ runs # <<>> /\ Deliver(1)

NumberingSpec == NumberingInit /\ [][NumberingNext]_vars

\* Several editors open at once, each with its own session and webview, on files
\* that hold the same bytes: every search may come from a session of its own.
Sessions == 1..MaxSearches

IsolationNext ==
  \/ \E s \in Sessions : \E options \in SearchOptions : SearchIn(s, options)
  \/ \E r \in 1..Len(runs) : \E n \in 1..MaxSearchLen : StreamData(r, n)
  \/ \E r \in 1..Len(runs) : StreamEnd(r)
  \/ \E r \in 1..Len(runs) : Deliver(r)

IsolationSpec == SearchInit /\ [][IsolationNext]_vars

\* Every operation of a session on one file: the indexing job and its failures,
\* stop (which closing the editor calls), page reads, and one search.
FrameNext ==
  \/ StartIdx
  \/ IdxOpen
  \/ IdxStat
  \/ IdxRead
  \/ IdxResume
  \/ IdxClose
  \/ IdxFail
  \/ Stop
  \/ \E p \in PageNumbers : ReadPageCall(p)
  \/ ReadPageReturn
  \/ \E options \in IoOptions : runs = <<>> /\ Search(options)
  \/ CancelSearch
  \/ \E n \in 1..MaxSearchLen : runs # <<>> /\ StreamData(1, n)
  \/ runs # <<>> /\ StreamEnd(1)
  \/ runs # <<>> /\ Deliver(1)

\* Files of empty lines, the shortest that make the job append checkpoints.
FrameFiles == {Repeat(LF, n) : n \in 0..MaxSearchLen}

FrameInit ==
  /\ file \in FrameFiles
  /\ pageSize = 1
  /\ indices = <<>>
  /\ totalLines = <<>>
  /\ activeJobs = FALSE
  /\ job = NoJob
  /\ scans = 0
  /\ events = <<>>
  /\ stopCalled = FALSE
  /\ startNoOp = FALSE
  /\ reader = Idle
  /\ abortController = 0
  /\ runs = <<>>
  /\ posted = <<>>

FrameSpec == FrameInit /\ [][FrameNext]_vars

\* ------------------------------------------------------ reference definitions
\* The file's text split at line feeds; the piece after the last line feed is a
\* line only when it is not empty.
FilePieces == Split(Decode(file), LF)
FileLines == IF Last(FilePieces) = <<>> THEN Front(FilePieces) ELSE FilePieces

\* A line as a record shows it: without one trailing carriage return.
ShownLine(line) == IF line # <<>> /\ Last(line) = CR THEN Front(line) ELSE line
ShownLines(lines) == [k \in 1..Len(lines) |-> ShownLine(lines[k])]
Raws(records) == [k \in 1..Len(records) |-> records[k].raw]

\* The number of line feeds among the first n bytes of the file.
RECURSIVE LineFeedsBefore(_)
LineFeedsBefore(n) ==
  IF n = 0 THEN 0 ELSE LineFeedsBefore(n - 1) + (IF file[n] = LF THEN 1 ELSE 0)

\* readPage(p) called and run to its end in the current state of the index.
ReadNow(p) ==
  readLinesFromOffset(getNearestOffset(indices, targetStartLine(p)),
                      targetStartLine(p), pageSize)

RECURSIVE ConcatPages(_)
ConcatPages(n) == IF n = 0 THEN <<>> ELSE ConcatPages(n - 1) \o Raws(ReadNow(n).lines)

\* ------------------------------------------------------------------- claims

\* C1: the raw fields of the records of readPage(1), readPage(2), ... up to the last
\* page, concatenated, are the file's lines in order, nothing duplicated, omitted or
\* altered, whatever the state of the index when the calls are made.  (Read here in
\* the claim's favour: an empty record for the text after a final line feed is
\* accepted as well.)
C1_PagesReconstructFile ==
  /\ \A p \in PageNumbers : ReadNow(p).outcome = "ok"
  /\ ConcatPages(LastPage) \in {ShownLines(FileLines), ShownLines(FilePieces)}

\* C2: a page returned by readPage holds the records a read started from the seed
\* checkpoint {line: 1, offset: 0} returns, whatever checkpoint it started from.
C2_IndexOnlyAccelerates ==
  reader.pc = "returned" =>
    LET fromSeed == readLinesFromOffset(SeedCheckpoint,
                      targetStartLine(reader.data.currentPage), pageSize)
    IN /\ reader.data.outcome = fromSeed.outcome
       /\ reader.data.lines = fromSeed.lines

\* C3: in every state of an indexing job the checkpoint sequence starts with
\* {line: 1, offset: 0} and is strictly increasing in line and in offset.
C3_CheckpointsIncrease ==
  indices # <<>> =>
    /\ indices[1] = SeedCheckpoint
    /\ \A k \in 1..(Len(indices) - 1) :
         /\ indices[k].line < indices[k + 1].line
         /\ indices[k].offset < indices[k + 1].offset

C3_Witness == Len(indices) >= 3 /\ job.pc \in {"yield", "failed"}

\* C4: every checkpoint is exact: line - 1 line feeds precede its offset and, past
\* the start of the file, the byte before the offset is a line feed.
C4_CheckpointsExact ==
  \A k \in 1..Len(indices) :
    /\ indices[k].offset \in 0..fileSize
    /\ LineFeedsBefore(indices[k].offset) = indices[k].line - 1
    /\ indices[k].offset > 0 => file[indices[k].offset] = LF

C4_Witness == Len(indices) >= 2 /\ Last(indices).offset > READ_BUFFER_SIZE

\* C5: once stop was called on a running job (here: one that still has bytes of the
\* file to read), totalLines is never recorded and no progress event carries
\* indexed = true.
C5_StopDoesNotComplete ==
  stopCalled => /\ totalLines = <<>>
                /\ \A k \in 1..Len(events) : ~events[k].indexed

\* C6: a job that ran to the end of the file records as totalLines the number of
\* line-terminated lines, plus one exactly when text follows the last terminator; it
\* is marked indexed and its last event has progress 1 and indexed = true.
C6_TotalLinesAtEOF ==
  (~stopCalled /\ job.pc \in {"close", "done"}) =>
    /\ totalLines = <<Len(FileLines)>>
    /\ events # <<>>
    /\ Last(events).indexed
    /\ Last(events).num = Last(events).den

\* C7: startIdx does nothing when a job is active or an index exists: no second scan
\* is ever launched, the checkpoint list only grows at its end, and a finished index
\* is not scanned again.
C7_StartIsIdempotent ==
  /\ [](scans <= 1)
  /\ [][indices # <<>> =>
          /\ Len(indices') >= Len(indices)
          /\ SubSeq(indices', 1, Len(indices)) = indices]_vars
  /\ [][job.pc = "done" => job' = job /\ totalLines' = totalLines]_vars

C7_Witness == startNoOp /\ job.pc = "done" /\ Len(indices) >= 2

\* The records a search that nothing stops holds for every matching line.
RECURSIVE MatchesUpTo(_, _)
MatchesUpTo(options, n) ==
  IF n = 0 THEN <<>>
  ELSE IF Matches(options, SearchLines[n])
    THEN Append(MatchesUpTo(options, n - 1), [lineNumber |-> n, raw |-> SearchLines[n]])
  ELSE MatchesUpTo(options, n - 1)

AllMatches(options) == MatchesUpTo(options, Len(SearchLines))
Found(results) == [k \in 1..Len(results) |-> [lineNumber |-> results[k].lineNumber,
                                              raw |-> results[k].raw]]
IsPrefix(s, t) == Len(s) <= Len(t) /\ SubSeq(t, 1, Len(s)) = s

ResultMessages == {k \in 1..Len(posted) : posted[k].type = "searchResults"}
Open(r) == ~runs[r].closed

\* C8: a new search first cancels the running one: when a later search exists the
\* earlier one is settled and appends no result any more, the earlier search's
\* searchResults message precedes the later one's, and never are two scans open.
C8_NewSearchCancelsPrevious ==
  /\ [](\A r1, r2 \in 1..Len(runs) : r1 < r2 =>
          /\ runs[r1].settled
          /\ ~(Open(r1) /\ Open(r2))
          /\ runs[r2].delivered => runs[r1].delivered)
  /\ [](\A k1, k2 \in ResultMessages : k1 < k2 => posted[k1].run < posted[k2].run)
  /\ [][\A r \in 1..Len(runs) : r < Len(runs) => runs'[r].results = runs[r].results]_vars

C8_Witness ==
  /\ Len(runs) = 2
  /\ runs[1].cancelled /\ runs[1].results # <<>> /\ runs[1].lineNumber < Len(SearchLines)
  /\ runs[2].delivered /\ runs[2].results # <<>>

\* C9: a search cancelled while it runs terminates: its searchResults message is
\* eventually posted, with interrupted = true and with results that are a prefix of
\* the matches of the file, found before the cancellation.  (Being cancelled and
\* being delivered are both stable, so "every cancelled run is eventually
\* delivered" is: from some point on no cancelled run is undelivered.)
C9_CancelTerminates ==
  /\ <>[](\A r \in 1..Len(runs) : runs[r].cancelled => runs[r].delivered)
  /\ [](\A k \in ResultMessages : runs[posted[k].run].cancelled =>
          /\ posted[k].interrupted
          /\ IsPrefix(Found(posted[k].results), AllMatches(runs[posted[k].run].options))
          /\ \A j \in 1..Len(posted[k].results) :
               posted[k].results[j].lineNumber <= runs[posted[k].run].lineNumber)

C9_Witness ==
  \E k \in ResultMessages :
    /\ runs[posted[k].run].cancelled
    /\ posted[k].results # <<>>
    /\ Len(posted[k].results) < Len(AllMatches(runs[posted[k].run].options))

\* C10: a search for a literal substring that K lines hold, run without being
\* cancelled, reports exactly those K lines in file order with interrupted = false
\* when maxResults >= K, and exactly the first maxResults of them with
\* interrupted = true when maxResults < K.
C10_CapAndCount ==
  \A k \in ResultMessages :
    LET run == runs[posted[k].run]
        all == AllMatches(run.options)
        cap == run.options.maxResults
    IN ~run.cancelled =>
         IF cap >= Len(all)
           THEN Found(posted[k].results) = all /\ ~posted[k].interrupted
           ELSE Found(posted[k].results) = SubSeq(all, 1, cap) /\ posted[k].interrupted

\* The lines of the searched file whose JSON decode fails: not blank, not parsed.
RECURSIVE ErrorLinesUpTo(_)
ErrorLinesUpTo(n) ==
  IF n = 0 THEN <<>>
  ELSE IF ParseError(SearchLines[n])
    THEN Append(ErrorLinesUpTo(n - 1), [lineNumber |-> n, raw |-> SearchLines[n]])
  ELSE ErrorLinesUpTo(n - 1)

ErrorLines == ErrorLinesUpTo(Len(SearchLines))

\* C11: a search with showErrorOnly set reports exactly the lines whose JSON decode
\* fails, each with parsed null and an error; lines that decode and blank lines are
\* not reported.
C11_ErrorsOnly ==
  \A k \in ResultMessages :
    runs[posted[k].run].options.showErrorOnly =>
      /\ Found(posted[k].results) = ErrorLines
      /\ \A j \in 1..Len(posted[k].results) :
           posted[k].results[j].error /\ posted[k].results[j].parsed = "null"

\* C12: a search with an empty query and showErrorOnly false reports no line: its
\* searchResults message carries an empty result.
C12_EmptyQueryRejected ==
  \A k \in ResultMessages :
    LET options == runs[posted[k].run].options
    IN (options.query = <<>> /\ ~options.showErrorOnly) => posted[k].results = <<>>

\* The positions in posted of the searchProgress messages of run r.
ProgressMessages(r) ==
  {j \in 1..Len(posted) : posted[j].type = "searchProgress" /\ posted[j].run = r}

\* C13: a search that ran to the end of the file, neither cancelled nor stopped by
\* the cap, posts a last searchProgress message with current = total and then its
\* searchResults message with all the matches and interrupted = false; none of its
\* searchProgress messages follows its searchResults message.
C13_NormalCompletion ==
  \A k \in ResultMessages :
    LET r == posted[k].run
        before == {j \in ProgressMessages(r) : j < k}
    IN (~runs[r].cancelled /\ Len(posted[k].results) < runs[r].options.maxResults) =>
         /\ ~posted[k].interrupted
         /\ Found(posted[k].results) = AllMatches(runs[r].options)
         /\ before # {}
         /\ \E j \in before :
              /\ \A i \in before : i <= j
              /\ posted[j].current = posted[j].total
              /\ posted[j].total = fileSize
         /\ \A j \in ProgressMessages(r) : j < k

C13_Witness ==
  \E k \in ResultMessages :
    /\ ~runs[posted[k].run].cancelled
    /\ posted[k].results # <<>>
    /\ Len(posted[k].results) < runs[posted[k].run].options.maxResults
    /\ runs[posted[k].run].lineNumber >= 2
    /\ Len(posted) > k

\* The positions in posted of the terminal messages (result or error) of run r.
TerminalMessages(r) ==
  {k \in 1..Len(posted) : posted[k].run = r /\ posted[k].type \in {"searchResults", "error"}}

\* C14: every search request ends in exactly one terminal message, a searchResults
\* or an error: from some point on every request has exactly one.  (Messages are
\* only ever appended to posted, so a second terminal message would stay there and
\* a missing one would stay missing: neither "two" nor "none" can occur.)
C14_OneOutcomePerSearch ==
  <>[](\A r \in 1..Len(runs) : Cardinality(TerminalMessages(r)) = 1)

C14_Witness ==
  /\ Len(runs) = 2
  /\ runs[1].cancelled /\ runs[1].delivered
  /\ runs[2].rejected /\ runs[2].delivered /\ runs[2].lineNumber >= 1
  /\ Cardinality(TerminalMessages(1)) = 1 /\ Cardinality(TerminalMessages(2)) = 1

\* The valid line numbers of the file.
ValidLines == 1..Len(FileLines)

\* C15: for every valid line number L, readLine(L) returns a record whose lineNumber
\* is L and whose raw is the text of line L, whatever checkpoints the index holds.
C15_ReadLineReturnsLine ==
  \A L \in ValidLines :
    LET got == readLine(L)
    IN /\ got.outcome = "ok"
       /\ got.line # <<>>
       /\ got.line[1].lineNumber = L
       /\ got.line[1].raw = ShownLine(FileLines[L])

\* C16: for every valid line number L, getPageForLine(L) is the page p with
\* (p - 1) * pageSize < L <= p * pageSize, and readPage of that page returns a
\* record whose lineNumber is L.
C16_PageForLineHoldsLine ==
  \A L \in ValidLines :
    LET p == getPageForLine(L)
        page == ReadNow(p)
    IN /\ (p - 1) * pageSize < L /\ L <= p * pageSize
       /\ page.outcome = "ok"
       /\ \E k \in 1..Len(page.lines) : page.lines[k].lineNumber = L

\* The number of records of the pages 1..n.
RECURSIVE RecordsUpTo(_)
RecordsUpTo(n) == IF n = 0 THEN 0 ELSE RecordsUpTo(n - 1) + Len(ReadNow(n).lines)

\* C19: a page holds at most pageSize records, and the text after the last line
\* feed is a record only when it is not empty: over all pages there are as many
\* records as the file has lines.
C19_RecordsMatchLineCount ==
  /\ \A p \in PageNumbers : Len(ReadNow(p).lines) <= pageSize
  /\ RecordsUpTo(LastPage) = Len(FileLines)

\* A character of several bytes lies across the end of a window, the windows being
\* counted from the offset the read starts at.
SplitCharacter(offset) ==
  \E k \in (offset + 1)..(fileSize - 1) :
    /\ (k - offset) % WINDOW = 0
    /\ IsCont(file[k + 1])

\* C17: when a character of several bytes is split across two read windows, the
\* page readPage returns is the page a read with one window covering the whole file
\* returns: the same records, with the same text and the same line numbers.
C17_SplitCharacterDecodes ==
  (reader.pc = "returned" /\ SplitCharacter(reader.checkpoint.offset)) =>
    LET p == reader.data.currentPage
        onePass == readLinesOnePass(reader.checkpoint, targetStartLine(p), pageSize)
    IN /\ reader.data.outcome = onePass.outcome
       /\ reader.data.lines = onePass.lines

\* What the claim allows a record to be, given its own raw text alone.
RecordOutcome(rec) ==
  /\ rec.error => rec.parsed = "null"
  /\ Trim(rec.raw) = <<>> => (rec.parsed = "null" /\ ~rec.error)
  /\ rec.error = (Trim(rec.raw) # <<>> /\ ~JsonParses(rec.raw))
  /\ (rec.parsed = "value") = (Trim(rec.raw) # <<>> /\ JsonParses(rec.raw))

\* The line numbers readLine is asked for: the lines of the longest text and one more.
LineNumbers == 1..(MaxTokens + 2)

\* C18: a malformed line does not abort readPage or readLine.  Every record of a
\* returned page, and every record readLine returns, has either its error set and
\* parsed null, or no error; a blank line has parsed null and no error; and what a
\* record holds follows from its own text, whatever the other lines of the page are.
C18_MalformedLineIsARecord ==
  /\ reader.pc = "returned" =>
       \A k \in 1..Len(reader.data.lines) : RecordOutcome(reader.data.lines[k])
  /\ \A L \in LineNumbers :
       \A k \in 1..Len(readLine(L).line) : RecordOutcome(readLine(L).line[k])

\* A page was returned whose first record is a malformed line and whose second
\* record is a line that parses.
C18_Witness ==
  /\ reader.pc = "returned"
  /\ reader.data.outcome = "ok"
  /\ Len(reader.data.lines) >= 2
  /\ reader.data.lines[1].error /\ reader.data.lines[1].parsed = "null"
  /\ ~reader.data.lines[2].error /\ reader.data.lines[2].parsed = "value"
  /\ reader.data.lines[2].lineNumber = reader.data.lines[1].lineNumber + 1

\* The byte-order mark, U+FEFF.
BOM == 65279

\* The text a record of line n is to show: the line without one trailing carriage
\* return and, for line 1 only, without a leading byte-order mark.
ExpectedRaw(n) ==
  LET shown == ShownLine(FilePieces[n])
  IN IF n = 1 /\ shown # <<>> /\ Head(shown) = BOM THEN Tail(shown) ELSE shown

RawsAsExpected(records) ==
  \A k \in 1..Len(records) :
    /\ records[k].lineNumber \in 1..Len(FilePieces)
    /\ records[k].raw = ExpectedRaw(records[k].lineNumber)

\* C20: every record readPage returns has as raw the text of its line without one
\* trailing carriage return, and without a leading byte-order mark when and only
\* when it is line 1; this for the read in windows and for the read whose window
\* holds the whole file.
C20_RawIsStrippedLine ==
  reader.pc = "returned" =>
    LET p == reader.data.currentPage
        onePass == readLinesOnePass(reader.checkpoint, targetStartLine(p), pageSize)
    IN /\ RawsAsExpected(onePass.lines)
       /\ RawsAsExpected(reader.data.lines)

\* C21: every page readPage returns holds at most pageSize records, its totalPages
\* is max(1, ceil(totalLines / pageSize)), and its isIndexed is true exactly when a
\* total is recorded at that moment, the page's totalLines then being that total;
\* this in every state of the index.
C21_PageMetadata ==
  [][(reader.pc = "reading" /\ reader'.pc = "returned") =>
       LET d == reader'.data
       IN /\ Len(d.lines) <= pageSize
          /\ d.totalLines >= 1
          /\ d.totalPages = Max(1, (d.totalLines + pageSize - 1) \div pageSize)
          /\ d.isIndexed = (totalLines # <<>>)
          /\ d.isIndexed => d.totalLines = totalLines[1]]_vars

\* Pages were returned for an index that gives two pages of an indexed file.
C21_Witness ==
  /\ reader.pc = "returned"
  /\ reader.data.isIndexed
  /\ reader.data.totalLines = 3 /\ reader.data.pageSize = 2
  /\ reader.data.totalPages = 2

\* A page number below 1, or above the number of pages once the total is recorded.
OutOfRange(p) ==
  \/ p < 1
  \/ totalLines # <<>> /\ p > TotalPages(totalLines[1])

\* C22: readPage called with an out-of-range page number does not get as far as
\* opening the file: no read is started for it.
C22_OutOfRangeRejected ==
  [][(reader.pc # "reading" /\ reader'.pc = "reading") => ~OutOfRange(reader'.page)]_vars

\* C23: getNearestOffset returns the seed {1, 0} when the path has no index, and
\* otherwise the checkpoint of the list with the greatest line that is not above
\* the target line; the checkpoint it returns is never past the target line.
C23_NearestCheckpoint ==
  [][(reader.pc # "reading" /\ reader'.pc = "reading") =>
       LET targetLine == targetStartLine(reader'.page)
           found == reader'.checkpoint
       IN /\ found.line <= targetLine
          /\ indices = <<>> => found = SeedCheckpoint
          /\ indices # <<>> =>
               /\ \E k \in 1..Len(indices) : indices[k] = found
               /\ \A k \in 1..Len(indices) :
                    indices[k].line <= targetLine => indices[k].line <= found.line]_vars

\* A lookup in a list of four checkpoints found one that is neither the first nor
\* the last, for a target line that is not itself a checkpoint.
C23_Witness ==
  /\ reader.pc = "reading"
  /\ Len(indices) >= 4
  /\ reader.checkpoint.line > 1
  /\ reader.checkpoint.line < targetStartLine(reader.page)
  /\ reader.checkpoint.line < Last(indices).line

C25_FailedJobKeepsCheckpoints ==
  /\ [](job.pc = "failed" =>
          /\ ~activeJobs
          /\ totalLines = <<>>
          /\ \A k \in 1..Len(events) : ~events[k].indexed
          /\ indices # <<>> /\ indices[1] = SeedCheckpoint
          /\ Len(indices) = Len(events) + 1)
  /\ [][job.pc = "failed" => indices' = indices]_vars
  /\ [][(job.pc = "failed" /\ reader.pc # "reading" /\ reader'.pc = "reading") =>
          \E k \in 1..Len(indices) :
            /\ reader'.checkpoint = indices[k]
            /\ indices[k].line <= targetStartLine(reader'.page)
            /\ k < Len(indices) => indices[k + 1].line > targetStartLine(reader'.page)]_vars

\* A read failed after a checkpoint had been appended, and a page was then returned
\* by a read that started from that checkpoint.
C25_Witness ==
  /\ job.pc = "failed"
  /\ Len(indices) >= 2
  /\ reader.pc = "returned"
  /\ reader.checkpoint = indices[2]
  /\ reader.data.outcome = "ok" /\ reader.data.lines # <<>>
  /\ ~reader.data.isIndexed

\* C26: after an I/O error ended the job, a call of startIdx does not return at its
\* guard: it launches a new scan.
C26_StartRetriesAfterFailure ==
  [][(job.pc = "failed" /\ ~startNoOp) => ~startNoOp']_vars

\* C27: the index is rebuilt per session: once a session was closed (clearCache,
\* which calls stop) while its job still had bytes of the file to read, the next
\* call of startIdx launches a fresh scan instead of returning at its guard.
C27_StartAfterCloseRescans ==
  [][(stopCalled /\ ~startNoOp) => ~startNoOp']_vars

\* C28: readPage does not wait for the index.  A call takes the checkpoint the list
\* gives at that moment, the seed when there is no list; every call returns, with no
\* step of the indexing job being required; and the job awaits after every
\* checkpoint it appends.
C28_ReadsDoNotWaitForIndex ==
  /\ [][(reader.pc # "reading" /\ reader'.pc = "reading") =>
          reader'.checkpoint =
            (IF indices = <<>> THEN SeedCheckpoint
             ELSE getNearestOffset(indices, targetStartLine(reader'.page)))]_vars
  /\ [][(indices # <<>> /\ Len(indices') > Len(indices)) => job'.pc = "yield"]_vars
  /\ (reader.pc = "reading") ~> (reader.pc = "returned")

\* A page was returned, from a checkpoint beyond the seed, while the job was
\* suspended after a checkpoint with more of the file to scan.
C28_Witness ==
  /\ reader.pc = "returned"
  /\ job.pc = "yield" /\ activeJobs /\ MoreToRead
  /\ totalLines = <<>>
  /\ reader.checkpoint.line > 1
  /\ ~reader.data.isIndexed

\* C29: a step of a search (its start, its progress and results, its cancellation,
\* its completion, the failure of its stream) leaves the index as it is: the
\* checkpoints, the recorded total, the job's activity and the job's position.
C29_SearchLeavesIndex ==
  [][<<abortController, runs, posted>>' # <<abortController, runs, posted>> =>
       UNCHANGED <<indices, totalLines, activeJobs, job, scans, events>>]_vars

\* The stream of a search failed and the error was reported while the indexing job
\* was suspended after a checkpoint, still active.
C29_Witness ==
  /\ job.pc = "yield" /\ activeJobs /\ Len(indices) >= 2
  /\ runs # <<>> /\ runs[1].rejected /\ runs[1].delivered
  /\ \E k \in 1..Len(posted) : posted[k].type = "error"

\* C30: once an indexing job has ended, by reaching its end, by a stop or by an I/O
\* error, the file handle it opened is closed.
C30_HandleClosedAtEnd ==
  job.pc \in {"done", "failed"} => ~job.fd

\* C31: a search with useRegex set and a query that is not a regular expression
\* does not fail: it reports the lines the same query reports with useRegex false,
\* those that hold the query as a substring under the same caseSensitive option.
C31_InvalidRegexFallsBack ==
  \A r \in 1..Len(runs) :
    LET options == runs[r].options
    IN (options.useRegex /\ ~IsValidRegex(options.query)) =>
         /\ ~runs[r].rejected
         /\ \A k \in ResultMessages :
              posted[k].run = r =>
                Found(posted[k].results) = AllMatches([options EXCEPT !.useRegex = FALSE])

\* A search with useRegex set and the query "(" delivered two matching lines of a
\* file that also holds a line without "(".
C31_Witness ==
  \E k \in ResultMessages :
    LET options == runs[posted[k].run].options
    IN /\ options.useRegex /\ options.query = <<LeftParen>>
       /\ Len(posted[k].results) = 2
       /\ Len(SearchLines) > 2

\* The lines the regular expression of the options matches somewhere, each tried on
\* its own.
RECURSIVE RegexMatchesUpTo(_, _)
RegexMatchesUpTo(options, n) ==
  IF n = 0 THEN <<>>
  ELSE IF RegexExec(options, 0, SearchLines[n]).matched
    THEN Append(RegexMatchesUpTo(options, n - 1),
                [lineNumber |-> n, raw |-> SearchLines[n]])
  ELSE RegexMatchesUpTo(options, n - 1)

\* C36: in regex mode a line is reported exactly when the regular expression
\* matches somewhere in its text, whatever lines came before it.
C36_RegexMatchPerLine ==
  \A k \in ResultMessages :
    LET options == runs[posted[k].run].options
    IN UsesRegex(options) =>
         Found(posted[k].results) = RegexMatchesUpTo(options, Len(SearchLines))

\* The offset in the file at which line n starts: 0 for line 1, otherwise the
\* position after the line feed that ends line n - 1.
LineStart(n) ==
  IF n = 1 THEN 0
  ELSE CHOOSE k \in 1..fileSize : file[k] = LF /\ LineFeedsBefore(k) = n - 1

\* C32: the byteOffset of every record readPage returns is the offset in the file
\* at which the record's line starts.
C32_ByteOffsetIsLineStart ==
  reader.pc = "returned" =>
    \A k \in 1..Len(reader.data.lines) :
      LET rec == reader.data.lines[k]
      IN rec.lineNumber \in ValidLines => rec.byteOffset = LineStart(rec.lineNumber)

\* C40: every progress message of a search reports 0 <= current <= total, and
\* current never decreases along the progress messages of one search.
C40_ProgressWithinTotal ==
  \A k \in 1..Len(posted) :
    posted[k].type = "searchProgress" =>
      /\ 0 <= posted[k].current
      /\ posted[k].current <= posted[k].total
      /\ \A j \in 1..(k - 1) :
           (posted[j].type = "searchProgress" /\ posted[j].run = posted[k].run) =>
             posted[j].current <= posted[k].current

\* C38: the results array of a search never holds more than maxResults entries, and
\* neither does the results sequence a searchResults message delivers.
C38_ResultsWithinCap ==
  /\ \A r \in 1..Len(runs) : Len(runs[r].results) <= runs[r].options.maxResults
  /\ \A k \in ResultMessages :
       Len(posted[k].results) <= runs[posted[k].run].options.maxResults

\* The line numbers a copyLine message may carry: the webview's number is passed to
\* readLine as it is, be it zero, negative or past the end of the file.
CopyLineNumbers == (0 - 1)..(MaxFileLen + 2)

\* C39: for every integer L, readLine(L) returns null or a record whose lineNumber
\* is L.
C39_ReadLineReturnsAskedLine ==
  \A L \in CopyLineNumbers :
    LET got == readLine(L)
    IN (got.outcome = "ok" /\ got.line # <<>>) => got.line[1].lineNumber = L

\* readLine with a buffer that holds the whole file, as the source's 16 KiB buffer
\* does for the files enumerated here.
readLineOnePass(lineNumber) ==
  LET read == readLinesOnePass(getNearestOffset(indices, lineNumber), lineNumber, 1)
  IN [outcome |-> read.outcome,
      line |-> IF read.lines # <<>> THEN <<read.lines[1]>> ELSE <<>>]

\* C37: search, the page reader and the indexer number lines by the same rule: for
\* every result r of a search, readLine(r.lineNumber) returns a record whose raw is
\* r.raw, and once the index is complete no result's line number exceeds totalLines.
C37_SameLineNumbering ==
  \A k \in ResultMessages : \A j \in 1..Len(posted[k].results) :
    LET r == posted[k].results[j]
        got == readLineOnePass(r.lineNumber)
    IN /\ got.outcome = "ok"
       /\ got.line # <<>>
       /\ got.line[1].raw = r.raw
       /\ totalLines # <<>> => r.lineNumber <= totalLines[1]

\* C35: searches are isolated per session: a search started in one session does not
\* abort a search of another session.
C35_SearchesIsolated ==
  [][Len(runs') = Len(runs) + 1 =>
       \A r \in 1..Len(runs) :
         runs[r].session # runs'[Len(runs')].session => runs'[r].aborted = runs[r].aborted]_vars

\* C33: the checkpoint sequence is append-only with a single writer: every step
\* leaves the entries it holds in place, only a step of the indexing job (or the
\* start that seeds an empty sequence) changes it, and then by exactly one entry at
\* its end, and once the job has completed it never changes again.
C33_CheckpointsAppendOnly ==
  /\ [][IsPrefix(indices, indices')]_vars
  /\ [][indices' # indices =>
          /\ Len(indices') = Len(indices) + 1
          /\ job' # job
          /\ (indices = <<>> /\ job'.pc = "open") \/ job.pc \in {"read", "yield"}
          /\ reader' = reader /\ runs' = runs /\ posted' = posted]_vars
  /\ [][job.pc \in {"close", "done"} => indices' = indices]_vars

\* A completed index of three checkpoints, after a stop, a returned page and a
\* delivered search.
C33_Witness ==
  /\ job.pc = "done"
  /\ Len(indices) >= 3
  /\ ~activeJobs /\ startNoOp
  /\ reader.pc = "returned"
  /\ \E k \in 1..Len(posted) : posted[k].type = "searchResults"

====
